---- MODULE Spec2Model ----
(***************************************************************************)
(* Trivia API (backend/flaskr/__init__.py, backend/models.py).             *)
(*                                                                         *)
(* The storage is the two tables of models.py; every request handler of    *)
(* create_app is one action.  A handler that draws a random number is      *)
(* modelled by the set of responses it can give.                           *)
(*                                                                         *)
(* Python values:  an optional value (a JSON key that may be missing, a    *)
(* query parameter that may be missing, None) is a set with at most one    *)
(* element; a text is a sequence of one-character strings.                 *)
(***************************************************************************)
EXTENDS Integers, Sequences, FiniteSets, TLC

\* ------------------------------------------------------------------ bounds
\* Questions in the storage of the handler specification at start.
MaxInit == 15
\* Largest page number requested; pages -NegPages .. MaxPage are requested.
MaxPage == 2
NegPages == 1
\* Rows of the category table when it is not empty.
MaxCategories == 2
\* Pure pagination: longest item sequence, largest and most negative page.
MaxLen == 25
MaxPgPage == 4
NegPgPages == 3
\* Quiz specifications: ids of stored questions, length of previous_questions.
MaxQuizQuestions == 4
MaxPrevLen == 3

\* ------------------------------------------------------- program constants
QUESTIONS_PER_PAGE == 10

VARIABLES
    categories,   \* table categories: set of [id, type]
    questions,    \* table questions: set of [id, question, answer, difficulty, category]
    nextId,       \* next value of the serial primary key questions.id
    req,          \* the request handled last
    resp,         \* the response given to it
    pre,          \* the storage when that request arrived
    handled,      \* the request of this behaviour has been answered
    quiz_category, \* quiz session: the category id the client plays
    previous,     \* quiz session: previous_questions held by the client
    turn,         \* quiz session: POST /quizzes sent so far
    finished,     \* quiz session: the client was answered question: false
    items,        \* pagination: the sequence given to paginate_questions
    page,         \* pagination: the page query parameter (optional integer)
    current       \* pagination: the result (optional: None before the call)

vars == <<categories, questions, nextId, req, resp, pre, handled,
          quiz_category, previous, turn, finished, items, page, current>>

\* ------------------------------------------------------------ Python values
None == {}

Some(v) == {v}

Get(opt) == CHOOSE v \in opt : TRUE

Min(a, b) == IF a < b THEN a ELSE b

Max(a, b) == IF a > b THEN a ELSE b

\* seq[start:end] of Python: negative indices count from the end, both are
\* clamped to the sequence, an empty range gives the empty list.
PySlice(seq, start, end) ==
    LET n == Len(seq)
        s == IF start < 0 THEN Max(start + n, 0) ELSE Min(start, n)
        e == IF end < 0 THEN Max(end + n, 0) ELSE Min(end, n)
    IN  IF s < e THEN SubSeq(seq, s + 1, e) ELSE <<>>

\* ------------------------------------------------------------------ models.py
CategoryTypes == <<"Science", "Art", "Geography", "History", "Entertainment", "Sports">>

Category(id) == [id |-> id, type |-> CategoryTypes[id]]

\* Variant of Question: the values of difficulty and category change places,
\* as a positional call in the order of __init__'s parameters would do.
Question_Swapped(id, question, answer, difficulty, category) ==
    [id |-> id, question |-> question, answer |-> answer,
     difficulty |-> category, category |-> difficulty]

Question(id, question, answer, difficulty, category) ==
    [id |-> id, question |-> question, answer |-> answer,
     difficulty |-> difficulty, category |-> category]

\* Question.format
Format(q) ==
    [id |-> q.id, question |-> q.question, answer |-> q.answer,
     difficulty |-> q.difficulty, category |-> q.category]

\* query.order_by(<Model>.id).all(): the rows in ascending order of the
\* primary key id.
OrderById(rows) ==
    LET ids == {q.id : q \in rows}
        top == IF ids = {} THEN 0 ELSE CHOOSE i \in ids : \A j \in ids : j <= i
        upto[k \in 0..top] ==
            IF k = 0 THEN <<>>
            ELSE IF k \in ids
            THEN Append(upto[k - 1], CHOOSE q \in rows : q.id = k)
            ELSE upto[k - 1]
    IN  upto[top]

\* The rows of a seeded storage: ids 1..n, categories in turn.
SeedText(i) == IF i % 2 = 1 THEN <<"A", "b">> ELSE <<"b", "a">>

SeedQuestion(i, ncat) ==
    Question(i, SeedText(i), <<"x">>, 1 + (i % 3), 1 + ((i - 1) % ncat))

\* ------------------------------------------------------------ pagination
\* request.args.get('page', 1, type=int)
PageArg(arg) == IF arg = None THEN 1 ELSE Get(arg)

\* Variant of PageStart: pages counted from 0.
PageStart_FromZero(arg) == PageArg(arg) * QUESTIONS_PER_PAGE

PageStart(arg) == (PageArg(arg) - 1) * QUESTIONS_PER_PAGE

PageEnd(arg) == PageStart(arg) + QUESTIONS_PER_PAGE

paginate_questions(arg, qs) ==
    LET formatted == [i \in 1..Len(qs) |-> Format(qs[i])]
    IN  PySlice(formatted, PageStart(arg), PageEnd(arg))

PgPages == {None} \cup {Some(p) : p \in (0 - NegPgPages)..MaxPgPage}

\* Item sequences of every length: ascending ids, ascending with gaps, and
\* an order that is not the id order (a search result).
PgItems ==
    UNION {{[i \in 1..n |-> SeedQuestion(i, 2)],
            [i \in 1..n |-> SeedQuestion(3 * i + 1, 2)],
            [i \in 1..n |-> SeedQuestion(n + 1 - i, 2)]} : n \in 0..MaxLen}

Idle ==
    /\ categories = {}
    /\ questions = {}
    /\ nextId = 1
    /\ req = [op |-> "none"]
    /\ resp = [status |-> 0]
    /\ pre = [categories |-> {}, questions |-> {}, nextId |-> 1]
    /\ handled = FALSE

NoSession ==
    /\ quiz_category = 0
    /\ previous = <<>>
    /\ turn = 0
    /\ finished = FALSE

NoPagination ==
    /\ items = <<>>
    /\ page = None
    /\ current = None

InitPaginate ==
    /\ Idle
    /\ NoSession
    /\ items \in PgItems
    /\ page \in PgPages
    /\ current = None

Paginate ==
    /\ current = None
    /\ current' = Some(paginate_questions(page, items))
    /\ UNCHANGED <<categories, questions, nextId, req, resp, pre, handled,
                   quiz_category, previous, turn, finished, items, page>>

NextPaginate == Paginate

SpecPaginate == InitPaginate /\ [][NextPaginate]_vars

\* ------------------------------------------------------------- responses
\* jsonify({...}): fields names the keys of the JSON object; a key that is
\* not in fields holds its empty value here.
Response(status, fields, qs, total, cats, cur, question) ==
    [status |-> status, fields |-> fields, questions |-> qs,
     total_questions |-> total, categories |-> cats,
     currentCategory |-> cur, question |-> question]

\* abort(code) answered by the errorhandler registered for code.
ErrorResponse(code) ==
    Response(code, {"success", "error", "message"}, <<>>, 0, <<>>, None, None)

HTTPException(code) == [http |-> TRUE, code |-> code]

\* Any exception that is not an HTTPException (KeyError, TypeError,
\* sqlalchemy.exc.IntegrityError).
OtherException == [http |-> FALSE, code |-> 0]

handle_exception(e) == IF e.http THEN ErrorResponse(e.code) ELSE ErrorResponse(500)

\* {category.id: category.type for category in categories}: the last row
\* of an id wins.
format_categories(cats) ==
    [id \in {cats[i].id : i \in 1..Len(cats)} |->
        LET last == CHOOSE i \in 1..Len(cats) :
                        /\ cats[i].id = id
                        /\ \A j \in 1..Len(cats) : cats[j].id = id => j <= i
        IN  cats[last].type]

\* random.randint(a, b): any integer of a..b.
randint(a, b) == a..b

\* ------------------------------------------------------------- handlers
\* GET /categories
retrieve_categories ==
    LET cats == OrderById(categories)
    IN  IF Len(cats) = 0
        THEN handle_exception(HTTPException(404))
        ELSE Response(200, {"success", "categories"}, <<>>, 0,
                      format_categories(cats), None, None)

\* GET /questions?page=arg on the question rows qrows: the responses the
\* handler can give (one for each value of random.randint).
retrieve_questions(arg, qrows) ==
    LET qs == OrderById(qrows)
        current_questions == paginate_questions(arg, qs)
        cats == OrderById(categories)
    IN  IF Len(current_questions) = 0
        THEN {handle_exception(HTTPException(404))}
        ELSE IF Len(cats) = 0
        THEN {handle_exception(HTTPException(404))}
        ELSE {Response(200,
                       {"success", "questions", "total_questions", "categories",
                        "currentCategory"},
                       current_questions, Len(qs), format_categories(cats),
                       Some(cats[i + 1].type), None)
                 : i \in randint(0, Len(cats) - 1)}

\* An outcome of a handler that writes: the question rows, the serial and
\* the response.
Outcome(qrows, serial, response) ==
    [questions |-> qrows, nextId |-> serial, resp |-> response]

\* Variant of remove_question: the listing is taken before the row is deleted.
remove_question_Stale(question_id, arg) ==
    LET found == {q \in questions : q.id = question_id}
    IN  IF found = {}
        THEN {Outcome(questions, nextId, handle_exception(HTTPException(404)))}
        ELSE {Outcome(questions \ found, nextId, r)
                 : r \in retrieve_questions(arg, questions)}

\* DELETE /questions/<question_id>?page=arg
remove_question(question_id, arg) ==
    LET found == {q \in questions : q.id = question_id}
    IN  IF found = {}
        THEN {Outcome(questions, nextId, handle_exception(HTTPException(404)))}
        ELSE LET rest == questions \ found
             IN  {Outcome(rest, nextId, r) : r \in retrieve_questions(arg, rest)}

\* Python's lower() on the characters of the model.
Lower(c) == IF c = "A" THEN "a" ELSE IF c = "B" THEN "b" ELSE c

\* text ILIKE pattern: % is any run of characters, _ any one character,
\* letters compare without case.
RECURSIVE LikeMatch(_, _)
LikeMatch(pattern, text) ==
    IF pattern = <<>> THEN text = <<>>
    ELSE IF Head(pattern) = "%"
    THEN \/ LikeMatch(Tail(pattern), text)
         \/ text # <<>> /\ LikeMatch(pattern, Tail(text))
    ELSE /\ text # <<>>
         /\ Head(pattern) = "_" \/ Lower(Head(pattern)) = Lower(Head(text))
         /\ LikeMatch(Tail(pattern), Tail(text))

\* Question.question.ilike('%{}%'.format(search_term))
SearchMatches(search_term, q) ==
    LikeMatch(<<"%">> \o search_term \o <<"%">>, q.question)

\* Question.insert of a row with the given optional difficulty and
\* category: the columns are NOT NULL and category is a foreign key, so the
\* commit raises unless both are present and the category exists.  The
\* serial is drawn either way.
InsertFails(difficulty, category) ==
    \/ difficulty = None
    \/ category = None
    \/ \A c \in categories : c.id # Get(category)

\* POST /questions?page=arg with the JSON body
create_question(body, arg) ==
    LET new_question == body.question
        new_answer == body.answer
        new_difficulty == body.difficulty
        new_category == body.category
        search_term == body.searchTerm
    IN  IF search_term # None /\ Get(search_term) # <<>>
        THEN LET found == OrderById({q \in questions :
                                        SearchMatches(Get(search_term), q)})
                 current_questions == paginate_questions(arg, found)
             IN  {Outcome(questions, nextId,
                          Response(200,
                                   {"success", "questions", "total_questions",
                                    "currentCategory"},
                                   current_questions, Len(found), <<>>, None, None))}
        ELSE IF \/ new_question = None
                \/ new_answer = None
                \/ new_question = Some(<<>>)
                \/ new_answer = Some(<<>>)
        THEN {Outcome(questions, nextId, handle_exception(HTTPException(422)))}
        ELSE IF InsertFails(new_difficulty, new_category)
        THEN {Outcome(questions, nextId + 1, handle_exception(OtherException))}
        ELSE LET question == Question(nextId, Get(new_question), Get(new_answer),
                                      Get(new_difficulty), Get(new_category))
                 rows == questions \cup {question}
             IN  {Outcome(rows, nextId + 1, r) : r \in retrieve_questions(arg, rows)}

\* Variant of retrieve_specific_category_questions: an empty list of
\* questions is answered 404 as well.
retrieve_specific_category_questions_NoneIsEmpty(category_id, arg) ==
    LET qs == OrderById({q \in questions : q.category = category_id})
        current_category == {c \in categories : c.id = category_id}
    IN  IF Len(qs) = 0 \/ current_category = None
        THEN handle_exception(HTTPException(404))
        ELSE Response(200,
                      {"success", "questions", "total_questions", "currentCategory"},
                      paginate_questions(arg, qs), Len(qs), <<>>,
                      Some(Get(current_category).type), None)

\* GET /categories/<category_id>/questions?page=arg
retrieve_specific_category_questions(category_id, arg) ==
    LET qs == OrderById({q \in questions : q.category = category_id})
        current_category == {c \in categories : c.id = category_id}
    IN  IF current_category = None
        THEN handle_exception(HTTPException(404))
        ELSE Response(200,
                      {"success", "questions", "total_questions", "currentCategory"},
                      paginate_questions(arg, qs), Len(qs), <<>>,
                      Some(Get(current_category).type), None)

\* Variant of QuizQuestions: previous_questions is not filtered out.
QuizQuestions_KeepsPrevious(category, previous_questions) ==
    IF category = None
    THEN OrderById(questions)
    ELSE OrderById({q \in questions : q.category = Get(category).id})

\* POST /quizzes, lines 169-179: the rows the queries return (the order of
\* a query without ORDER BY is the storage engine's; the id order is taken).
QuizQuestions(category, previous_questions) ==
    IF category = None
    THEN IF Len(previous_questions) > 0
         THEN OrderById({q \in questions :
                            \A i \in 1..Len(previous_questions) :
                                q.id # previous_questions[i]})
         ELSE OrderById(questions)
    ELSE IF Len(previous_questions) > 0
         THEN OrderById({q \in questions :
                            /\ \A i \in 1..Len(previous_questions) :
                                  q.id # previous_questions[i]
                            /\ q.category = Get(category).id})
         ELSE OrderById({q \in questions : q.category = Get(category).id})

\* Variant of QuizPick: a single remaining question counts as none.
QuizPick_DropsLast(qs) ==
    LET maxlen == Len(qs) - 1
    IN  IF maxlen > 0
        THEN {Some(Format(qs[i + 1])) : i \in randint(0, maxlen)}
        ELSE {None}

\* POST /quizzes, lines 180-186: the values question can take; False is None.
QuizPick(qs) ==
    LET maxlen == Len(qs) - 1
    IN  IF maxlen > 0
        THEN {Some(Format(qs[i + 1])) : i \in randint(0, maxlen)}
        ELSE IF maxlen = 0
        THEN {Some(Format(qs[1]))}
        ELSE {None}

\* POST /quizzes with the JSON body: quiz_category is an optional object
\* with an optional integer id, previous_questions an optional list.
play_quiz(body) ==
    IF body.quiz_category = None \/ Get(body.quiz_category).id = None
    THEN {handle_exception(OtherException)}
    ELSE LET category_id == Get(Get(body.quiz_category).id)
             category == {c \in categories : c.id = category_id}
         IN  IF body.previous_questions = None
             THEN {handle_exception(OtherException)}
             ELSE {Response(200, {"success", "question"}, <<>>, 0, <<>>, None, question)
                      : question \in QuizPick(QuizQuestions(category,
                                                  Get(body.previous_questions)))}

\* ------------------------------------------------- handler specification
Pages == {None} \cup {Some(p) : p \in (0 - NegPages)..MaxPage}

CategoryIds == 1..(MaxCategories + 1)

Texts == {None, Some(<<>>), Some(<<"a">>)}

SearchTerms == {None, Some(<<>>), Some(<<"A", "_">>)}

Bodies ==
    [question : Texts, answer : Texts, difficulty : {None, Some(2)},
     category : {None} \cup {Some(c) : c \in {1, MaxCategories + 1}},
     searchTerm : SearchTerms]

NoBody ==
    [question |-> None, answer |-> None, difficulty |-> None,
     category |-> None, searchTerm |-> None]

Request(op, id, arg, body) == [op |-> op, id |-> id, page |-> arg, body |-> body]

\* The handlers keep nothing between requests, so a behaviour is one
\* request to a storage the program can have reached: no category and no
\* question, or MaxCategories categories and the questions 1..n, possibly
\* with one of them deleted since and with a serial that ran ahead.
Storages ==
    {[categories |-> {Category(c) : c \in 1..ncat},
      questions |-> {SeedQuestion(i, ncat) : i \in (1..n) \ {hole}},
      nextId |-> n + 1 + ahead]
        : <<ncat, n, hole, ahead>> \in
            {t \in {0, MaxCategories} \X (0..MaxInit) \X (0..MaxInit) \X {0, 1} :
                /\ t[3] <= t[2]
                /\ t[1] = 0 => t[2] = 0}}

Storage == [categories |-> categories, questions |-> questions, nextId |-> nextId]

Init ==
    /\ NoSession
    /\ NoPagination
    /\ \E st \in Storages :
          /\ categories = st.categories
          /\ questions = st.questions
          /\ nextId = st.nextId
    /\ req = Request("none", 0, None, NoBody)
    /\ resp = ErrorResponse(0)
    /\ pre = Storage
    /\ handled = FALSE

Handled(request, response) ==
    /\ handled' = TRUE
    /\ req' = request
    /\ resp' = response
    /\ pre' = Storage
    /\ UNCHANGED <<categories, quiz_category, previous, turn, finished, items, page, current>>

RetrieveCategories ==
    /\ ~handled
    /\ Handled(Request("retrieve_categories", 0, None, NoBody), retrieve_categories)
    /\ UNCHANGED <<questions, nextId>>

RetrieveQuestions ==
    /\ ~handled
    /\ \E arg \in Pages :
        \E r \in retrieve_questions(arg, questions) :
            /\ Handled(Request("retrieve_questions", 0, arg, NoBody), r)
            /\ UNCHANGED <<questions, nextId>>

RemoveQuestion ==
    /\ ~handled
    /\ \E question_id \in 1..nextId, arg \in Pages :
        \E o \in remove_question(question_id, arg) :
            /\ Handled(Request("remove_question", question_id, arg, NoBody), o.resp)
            /\ questions' = o.questions
            /\ nextId' = o.nextId

CreateQuestion ==
    /\ ~handled
    /\ \E body \in Bodies, arg \in Pages :
        \E o \in create_question(body, arg) :
            /\ Handled(Request("create_question", 0, arg, body), o.resp)
            /\ questions' = o.questions
            /\ nextId' = o.nextId

RetrieveSpecificCategoryQuestions ==
    /\ ~handled
    /\ \E category_id \in CategoryIds, arg \in Pages :
        /\ Handled(Request("retrieve_specific_category_questions", category_id, arg, NoBody),
                   retrieve_specific_category_questions(category_id, arg))
        /\ UNCHANGED <<questions, nextId>>

Next ==
    \/ RetrieveCategories
    \/ RetrieveQuestions
    \/ RemoveQuestion
    \/ CreateQuestion
    \/ RetrieveSpecificCategoryQuestions

Spec == Init /\ [][Next]_vars

\* ---------------------------------------------------- quiz specification
\* The storages of the quiz specifications: any of the questions
\* 1..MaxQuizQuestions, categories in turn.
QuizStorages ==
    {[categories |-> {Category(c) : c \in 1..ncat},
      questions |-> IF ncat = 0 THEN {} ELSE {SeedQuestion(i, ncat) : i \in ids}]
        : <<ncat, ids>> \in {0, MaxCategories} \X SUBSET (1..MaxQuizQuestions)}

RECURSIVE SeqsUpTo(_, _)
SeqsUpTo(S, n) ==
    IF n = 0 THEN {<<>>}
    ELSE LET shorter == SeqsUpTo(S, n - 1)
         IN  shorter \cup {Append(sq, x) : sq \in shorter, x \in S}

\* quiz_category: missing, without id, or with an id from 0 (the id the
\* client sends for all categories) to one past the stored categories.
QuizCategories ==
    {None, Some([id |-> None])}
        \cup {Some([id |-> Some(c)]) : c \in 0..(MaxCategories + 1)}

PreviousLists ==
    {None} \cup {Some(sq) : sq \in SeqsUpTo(1..(MaxQuizQuestions + 1), MaxPrevLen)}

QuizBody(category, previous_questions) ==
    [quiz_category |-> category, previous_questions |-> previous_questions]

QuizStorage(st) ==
    /\ categories = st.categories
    /\ questions = st.questions
    /\ nextId = MaxQuizQuestions + 1
    /\ pre = [categories |-> st.categories, questions |-> st.questions,
              nextId |-> MaxQuizQuestions + 1]

InitQuiz ==
    /\ NoSession
    /\ NoPagination
    /\ \E st \in QuizStorages : QuizStorage(st)
    /\ req = [op |-> "none", body |-> QuizBody(None, None)]
    /\ resp = ErrorResponse(0)
    /\ handled = FALSE

PlayQuiz ==
    /\ ~handled
    /\ \E category \in QuizCategories, previous_questions \in PreviousLists :
          \E r \in play_quiz(QuizBody(category, previous_questions)) :
              /\ req' = [op |-> "play_quiz",
                         body |-> QuizBody(category, previous_questions)]
              /\ resp' = r
    /\ handled' = TRUE
    /\ UNCHANGED <<categories, questions, nextId, pre, quiz_category, previous,
                   turn, finished, items, page, current>>

NextQuiz == PlayQuiz

SpecQuiz == InitQuiz /\ [][NextQuiz]_vars

\* ------------------------------------------------- session specification
\* A client plays one category: it starts with previous_questions = [] and
\* appends the id of every question it is served; the storage stays as it
\* is.
InitSession ==
    /\ NoPagination
    /\ \E st \in QuizStorages : QuizStorage(st)
    /\ quiz_category \in 0..(MaxCategories + 1)
    /\ previous = <<>>
    /\ turn = 0
    /\ finished = FALSE
    /\ req = [op |-> "none", body |-> QuizBody(None, None)]
    /\ resp = ErrorResponse(0)
    /\ handled = FALSE

SessionTurn ==
    /\ ~finished
    /\ LET body == QuizBody(Some([id |-> Some(quiz_category)]), Some(previous))
       IN  \E r \in play_quiz(body) :
              /\ req' = [op |-> "play_quiz", body |-> body]
              /\ resp' = r
              /\ turn' = turn + 1
              /\ IF r.status = 200 /\ r.question # None
                 THEN /\ previous' = Append(previous, Get(r.question).id)
                      /\ finished' = FALSE
                 ELSE /\ previous' = previous
                      /\ finished' = (r.status = 200)
    /\ handled' = TRUE
    /\ UNCHANGED <<categories, questions, nextId, pre, quiz_category,
                   items, page, current>>

NextSession == SessionTurn

\* The client sends its next request as long as it has not been told that
\* no question is left, and every request is answered.
SpecSession == InitSession /\ [][NextSession]_vars /\ WF_vars(SessionTurn)

\* ------------------------------------------------------------- claims
Ids(rows) == {q.id : q \in rows}

\* The page n of a sequence as the glossary defines it: the elements at the
\* 0-based positions of [(n-1)*size, n*size) that the sequence has.
PageOf(n, seq, size) ==
    LET lo == Max((n - 1) * size, 0)
        hi == Min(n * size, Len(seq))
    IN  IF lo < hi THEN [k \in 1..(hi - lo) |-> seq[lo + k]] ELSE <<>>

Elements(sq) == {sq[i] : i \in 1..Len(sq)}

\* The category id of a quiz body, when it has one.
HasCategoryId(body) ==
    body.quiz_category # None /\ Get(body.quiz_category).id # None

CategoryIdOf(body) == Get(Get(body.quiz_category).id)

\* The candidate pool of a quiz body for an existing category.
CategoryPool(body) ==
    {q \in questions :
        /\ q.category = CategoryIdOf(body)
        /\ q.id \notin Elements(Get(body.previous_questions))}

\* The candidate pool of a quiz body for any category.
AnyPool(body) ==
    {q \in questions : q.id \notin Elements(Get(body.previous_questions))}

\* C1: POST /quizzes for an existing category C and a list
\* previous_questions succeeds; its pool is the stored questions of C whose id
\* is not in the list; the question is a member of the pool when there is
\* one, every member can be the question, and the question is false exactly
\* when the pool is empty.
C1_QuizPool ==
    (/\ handled
     /\ req.op = "play_quiz"
     /\ req.body.previous_questions # None
     /\ HasCategoryId(req.body)
     /\ \E c \in categories : c.id = CategoryIdOf(req.body)) =>
        LET pool == CategoryPool(req.body)
        IN  /\ resp.status = 200
            /\ resp.fields = {"success", "question"}
            /\ resp.question = None <=> pool = {}
            /\ pool # {} =>
                  /\ resp.question \subseteq pool
                  /\ \A q \in resp.question :
                        /\ q.id \notin Elements(Get(req.body.previous_questions))
                        /\ q.category = CategoryIdOf(req.body)
                  /\ {r.question : r \in play_quiz(req.body)}
                        = {Some(q) : q \in pool}

C1_Witness ==
    /\ handled
    /\ req.op = "play_quiz"
    /\ req.body.previous_questions # None
    /\ HasCategoryId(req.body)
    /\ \E c \in categories : c.id = CategoryIdOf(req.body)
    /\ Cardinality(CategoryPool(req.body)) = 1
    /\ \E q \in questions :
          /\ q.category = CategoryIdOf(req.body)
          /\ q.id \in Elements(Get(req.body.previous_questions))
    /\ resp.question # None

\* The ids a session can be served: the questions of its category, or all
\* questions when no category has its id.
SessionPool ==
    IF \E c \in categories : c.id = quiz_category
    THEN {q.id : q \in {r \in questions : r.category = quiz_category}}
    ELSE Ids(questions)

C2_Safety ==
    /\ \A i, j \in 1..Len(previous) : previous[i] = previous[j] => i = j
    /\ Elements(previous) \subseteq SessionPool
    /\ turn = Len(previous) + (IF finished THEN 1 ELSE 0)
    /\ finished =>
          /\ Elements(previous) = SessionPool
          /\ turn = Cardinality(SessionPool) + 1
          /\ resp.status = 200 /\ resp.question = None
    /\ (~finished /\ turn > 0) => resp.status = 200 /\ resp.question # None

\* C2: in a session on an unchanged storage the client is never served a
\* question twice, is served every question of the pool once, is answered
\* question: false on turn N+1 and on no other turn, N being the size of the
\* pool, and so the session ends.
C2_Session == []C2_Safety /\ <>finished

C2_Witness ==
    /\ finished
    /\ turn = 3
    /\ \E c \in categories : c.id = quiz_category
    /\ Cardinality(questions) > 2

\* C3: POST /quizzes whose quiz_category means any category - its id is the
\* id of no stored category, or no category is supplied - succeeds and takes
\* the question from all stored questions whose id is not in
\* previous_questions.
C3_AnyCategory ==
    (/\ handled
     /\ req.op = "play_quiz"
     /\ req.body.previous_questions # None
     /\ \/ ~HasCategoryId(req.body)
        \/ \A c \in categories : c.id # CategoryIdOf(req.body)) =>
        LET pool == AnyPool(req.body)
        IN  /\ resp.status = 200
            /\ resp.question = None <=> pool = {}
            /\ resp.question \subseteq pool

\* C4: for a page >= 1, paginate returns the elements of items at the 0-based
\* positions of [(page-1)*10, page*10) in their order: at most 10, and none
\* when (page-1)*10 >= length(items).
C4_Paginate ==
    (current # None /\ PageArg(page) >= 1) =>
        LET out == Get(current)
            first == (PageArg(page) - 1) * 10
        IN  /\ Len(out) <= 10
            /\ Len(out) = Max(0, Min(10, Len(items) - first))
            /\ \A k \in 1..Len(out) : out[k] = items[first + k]
            /\ first >= Len(items) => out = <<>>

C4_Witness ==
    /\ current # None
    /\ page = Some(2)
    /\ Len(items) = 15
    /\ Len(Get(current)) = 5

\* C9: for every integer page, also 0 and the negative ones, paginate slices
\* from a start index that is not negative, and a page out of range (page < 1
\* or (page-1)*10 >= length) gives the empty sequence.
C9_OutOfRange ==
    current # None =>
        /\ PageStart(page) >= 0
        /\ (PageArg(page) < 1 \/ (PageArg(page) - 1) * 10 >= Len(items)) =>
              Get(current) = <<>>

\* C5: DELETE /questions/{id} answers 404 and changes nothing when no stored
\* question has that id; otherwise it removes exactly that question, keeps
\* every other question and every category, and answers as GET /questions
\* does for the same page parameter on the storage after the deletion.
C5_Delete ==
    (handled /\ req.op = "remove_question") =>
        LET target == {q \in pre.questions : q.id = req.id}
        IN  /\ categories = pre.categories
            /\ target = {} => resp.status = 404 /\ questions = pre.questions
            /\ target # {} =>
                  /\ Cardinality(target) = 1
                  /\ questions = pre.questions \ target
                  /\ resp \in retrieve_questions(req.page, questions)

C5_Witness ==
    /\ handled
    /\ req.op = "remove_question"
    /\ req.id \in Ids(pre.questions)
    /\ resp.status = 200
    /\ Cardinality(questions) >= QUESTIONS_PER_PAGE

Searching(body) == body.searchTerm # None /\ Get(body.searchTerm) # <<>>

Blank(body) ==
    \/ body.question = None
    \/ body.answer = None
    \/ body.question = Some(<<>>)
    \/ body.answer = Some(<<>>)

Insertable(body) ==
    /\ body.difficulty # None
    /\ body.category # None
    /\ \E c \in pre.categories : c.id = Get(body.category)

\* C6: POST /questions searches and inserts nothing when searchTerm is present
\* and not empty, whatever else the body holds; else answers 422 and inserts
\* nothing when question or answer is missing or empty; else, given a
\* difficulty and an existing category, inserts exactly one question with
\* the supplied fields and an id no stored question has, and changes no
\* stored question.
C6_Create ==
    (handled /\ req.op = "create_question") =>
        /\ Searching(req.body) =>
              /\ questions = pre.questions
              /\ resp.status = 200
              /\ resp.fields = {"success", "questions", "total_questions",
                                "currentCategory"}
              /\ resp.currentCategory = None
        /\ (~Searching(req.body) /\ Blank(req.body)) =>
              /\ questions = pre.questions
              /\ resp.status = 422
        /\ (~Searching(req.body) /\ ~Blank(req.body) /\ Insertable(req.body)) =>
              \E q \in questions :
                  /\ q.id \notin Ids(pre.questions)
                  /\ questions = pre.questions \cup {q}
                  /\ q.question = Get(req.body.question)
                  /\ q.answer = Get(req.body.answer)
                  /\ q.difficulty = Get(req.body.difficulty)
                  /\ q.category = Get(req.body.category)

C6_Witness ==
    /\ handled
    /\ req.op = "create_question"
    /\ Searching(req.body)
    /\ ~Blank(req.body)
    /\ Insertable(req.body)
    /\ resp.total_questions > 0

\* C7: GET /questions?page=N answers 404 exactly when page N of the stored
\* questions in id order is empty or there is no category; otherwise it
\* succeeds with that page as questions, the number of all stored questions
\* as total_questions and the type of a stored category as currentCategory.
C7_ListQuestions ==
    (handled /\ req.op = "retrieve_questions") =>
        LET all == OrderById(questions)
            pageN == PageOf(PageArg(req.page), all, 10)
        IN  /\ resp.status = 404 <=> (pageN = <<>> \/ categories = {})
            /\ resp.status # 404 =>
                  /\ resp.status = 200
                  /\ resp.questions = pageN
                  /\ Len(resp.questions) <= 10
                  /\ resp.total_questions = Cardinality(questions)
                  /\ \E c \in categories : resp.currentCategory = Some(c.type)

\* C8: GET /categories/{id}/questions answers 404 exactly when no category
\* has that id; for a category that exists it succeeds, also without
\* questions or on an empty page, returns only questions of that category,
\* the number of stored questions of the category as total_questions and
\* the category's type as currentCategory.
C8_CategoryQuestions ==
    (handled /\ req.op = "retrieve_specific_category_questions") =>
        LET cat == {c \in categories : c.id = req.id}
            mine == {q \in questions : q.category = req.id}
        IN  /\ resp.status = 404 <=> cat = {}
            /\ cat # {} =>
                  /\ resp.status = 200
                  /\ \A i \in 1..Len(resp.questions) :
                        /\ resp.questions[i].category = req.id
                        /\ resp.questions[i] \in mine
                  /\ resp.total_questions = Cardinality(mine)
                  /\ \A c \in cat : resp.currentCategory = Some(c.type)

C8_Witness ==
    /\ handled
    /\ req.op = "retrieve_specific_category_questions"
    /\ \E c \in categories : c.id = req.id
    /\ resp.status = 200
    /\ resp.questions = <<>>
    /\ \E q \in questions : q.category = req.id

\* C10: a DELETE /questions/{id} or POST /questions answered with 404, 422 or
\* 500 leaves the stored questions as they were.
C10_ErrorsAtomic ==
    (/\ handled
     /\ req.op \in {"remove_question", "create_question"}
     /\ resp.status \in {404, 422, 500}) =>
        questions = pre.questions

====
